---- MODULE Spec2Model ----
(***************************************************************************)
(* Model of cavs_dashboard_interactive.py: the Streamlit script that loads *)
(* "Cavs Tickets.csv", derives category weights and pacing curves, and on  *)
(* every widget change reruns the scenario forecast and pacing status.     *)
(*                                                                         *)
(* Numbers: the script computes in float64.  Along the script's own runs   *)
(* every quantity is a ratio of small integers and the model computes the  *)
(* same expressions in exact rational arithmetic (a rational is a pair     *)
(* <<numerator, denominator>> in lowest terms, denominator > 0); ticket    *)
(* counts and days are integers, as in the CSV.  Where a helper is applied *)
(* to arbitrary floats its arguments are float64 values and the arithmetic *)
(* rounds as IEEE-754 does (section "float64" below).                      *)
(* Python's None / "not assigned in this run" is the empty sequence <<>>,  *)
(* a present value x is <<x>>.                                             *)
(***************************************************************************)
EXTENDS Integers, Sequences, FiniteSets, TLC

VARIABLES
    raw,              \* the file "Cavs Tickets.csv" as it is on disk
    cache,            \* st.cache_data stores of the three cached functions
    df, error,        \* module-level result of load_data()
    tier_weight, giveaway_weight, dow_weight,
    pacing_all,
    window_group, sales_window, txns, avg_tix_per_txn, tier, giveaway, day_of_week,
    pacing,           \* curve of the selected cohort
    pace_med, pace_adjustment, forecast_tickets, gap,
    scenario_share, p25_at_day, p75_at_day, status_label,
    pc,               \* "start", "stopped_load", "stopped_pacing", "done"
    runs,             \* number of script runs in this session
    probe_in, probe_out   \* arguments and result of a helper applied on its own

widgets == <<window_group, sales_window, txns, avg_tix_per_txn, tier, giveaway, day_of_week>>
outputs == <<pacing, pace_med, pace_adjustment, forecast_tickets, gap,
             scenario_share, p25_at_day, p75_at_day, status_label>>
artefacts == <<df, error, tier_weight, giveaway_weight, dow_weight, pacing_all>>
vars == <<raw, cache, artefacts, widgets, outputs, pc, runs, probe_in, probe_out>>

None == <<>>
Some(x) == <<x>>

(***************************************************************************)
(* Exact rational arithmetic standing for float64                          *)
(***************************************************************************)
RECURSIVE GCD(_, _)
GCD(a, b) == IF b = 0 THEN a ELSE GCD(b, a % b)

Abs(x) == IF x < 0 THEN -x ELSE x

Rat(n, d) == LET g == GCD(Abs(n), d) IN <<n \div g, d \div g>>

R(n) == <<n, 1>>
RAdd(a, b) == Rat(a[1] * b[2] + b[1] * a[2], a[2] * b[2])
RSub(a, b) == Rat(a[1] * b[2] - b[1] * a[2], a[2] * b[2])
RMul(a, b) == Rat(a[1] * b[1], a[2] * b[2])
RDiv(a, b) == IF b[1] > 0 THEN Rat(a[1] * b[2], a[2] * b[1])
                          ELSE Rat(-(a[1] * b[2]), -(a[2] * b[1]))
RLt(a, b) == a[1] * b[2] < b[1] * a[2]
RLe(a, b) == a[1] * b[2] <= b[1] * a[2]
RMax(a, b) == IF RLt(a, b) THEN b ELSE a
RMin(a, b) == IF RLt(b, a) THEN b ELSE a

\* float NaN (a missing numeric value)
NaN == <<0, 0>>

\* np.clip(x, lo, hi) == minimum(maximum(x, lo), hi)
clip(x, lo, hi) == RMin(RMax(x, lo), hi)

RECURSIVE SumSeq(_)
SumSeq(s) == IF s = <<>> THEN 0 ELSE Head(s) + SumSeq(Tail(s))

RECURSIVE RSumSeq(_)
RSumSeq(s) == IF s = <<>> THEN R(0) ELSE RAdd(Head(s), RSumSeq(Tail(s)))

MaxInt(S) == CHOOSE m \in S : \A x \in S : x <= m

\* ascending sort of a sequence of rationals (selection of the minimum)
RECURSIVE RSort(_)
RSort(s) ==
    IF s = <<>> THEN <<>>
    ELSE LET i == CHOOSE k \in DOMAIN s : \A j \in DOMAIN s : RLe(s[k], s[j])
         IN <<s[i]>> \o RSort(SubSeq(s, 1, i - 1) \o SubSeq(s, i + 1, Len(s)))

(***************************************************************************)
(* float64                                                                 *)
(*                                                                         *)
(* A non-negative finite double is <<m, e, 0>>, standing for m * 2^e with  *)
(* m a natural number of exactly 53 bits; 0.0 is <<<<>>, 0, 0>>.  m is     *)
(* held as a sequence of limbs in base 2^15, least significant first, with *)
(* no leading zero limb (<<>> is 0).  Every operation computes the exact   *)
(* result and rounds it to nearest, ties to even.  Exponents stay far from *)
(* the overflow and subnormal ranges.                                      *)
(***************************************************************************)
Limb == 2^15
Significand == 53

RECURSIVE Pow2(_)
Pow2(k) == IF k = 0 THEN 1 ELSE 2 * Pow2(k - 1)

RECURSIVE BNorm(_)
BNorm(a) == IF a = <<>> THEN <<>>
            ELSE IF a[Len(a)] = 0 THEN BNorm(SubSeq(a, 1, Len(a) - 1)) ELSE a

RECURSIVE BFromInt(_)
BFromInt(n) == IF n = 0 THEN <<>> ELSE <<n % Limb>> \o BFromInt(n \div Limb)

\* -1, 0, 1 as a < b, a = b, a > b
BCmp(a, b) ==
    IF Len(a) # Len(b) THEN (IF Len(a) < Len(b) THEN -1 ELSE 1)
    ELSE LET D == {i \in 1..Len(a) : a[i] # b[i]}
         IN IF D = {} THEN 0
            ELSE LET i == CHOOSE k \in D : \A j \in D : j <= k
                 IN IF a[i] < b[i] THEN -1 ELSE 1

Digit(a, i) == IF i <= Len(a) THEN a[i] ELSE 0

RECURSIVE BAddC(_, _, _, _)
BAddC(a, b, i, c) ==
    IF i > Len(a) /\ i > Len(b) THEN (IF c = 0 THEN <<>> ELSE <<c>>)
    ELSE LET x == Digit(a, i) + Digit(b, i) + c
         IN <<x % Limb>> \o BAddC(a, b, i + 1, x \div Limb)
BAdd(a, b) == BAddC(a, b, 1, 0)

\* a - b for a >= b
RECURSIVE BSubB(_, _, _, _)
BSubB(a, b, i, c) ==
    IF i > Len(a) THEN <<>>
    ELSE LET x == Digit(a, i) - Digit(b, i) - c
         IN <<(x + Limb) % Limb>> \o BSubB(a, b, i + 1, IF x < 0 THEN 1 ELSE 0)
BSub(a, b) == BNorm(BSubB(a, b, 1, 0))

RECURSIVE BMulDigit(_, _, _, _)
BMulDigit(a, d, i, c) ==
    IF i > Len(a) THEN (IF c = 0 THEN <<>> ELSE <<c>>)
    ELSE LET x == a[i] * d + c
         IN <<x % Limb>> \o BMulDigit(a, d, i + 1, x \div Limb)

RECURSIVE BMulFrom(_, _, _)
BMulFrom(a, b, j) ==
    IF j > Len(b) THEN <<>>
    ELSE BAdd(BMulDigit(a, b[j], 1, 0), <<0>> \o BMulFrom(a, b, j + 1))
BMul(a, b) == BNorm(BMulFrom(a, b, 1))

\* 2^k
BPow2(k) == [i \in 1..(k \div 15 + 1) |-> IF i = k \div 15 + 1 THEN Pow2(k % 15) ELSE 0]

RECURSIVE IntBitLen(_)
IntBitLen(n) == IF n = 0 THEN 0 ELSE 1 + IntBitLen(n \div 2)
BBitLen(a) == IF a = <<>> THEN 0 ELSE 15 * (Len(a) - 1) + IntBitLen(a[Len(a)])

\* the largest digit t >= d with t * b <= r, settling bits j .. 0
RECURSIVE FindDigit(_, _, _, _)
FindDigit(r, b, d, j) ==
    IF j < 0 THEN d
    ELSE IF BCmp(BMulDigit(b, d + Pow2(j), 1, 0), r) <= 0
    THEN FindDigit(r, b, d + Pow2(j), j - 1)
    ELSE FindDigit(r, b, d, j - 1)

\* <<quotient, remainder>> of a by b # 0, one limb of a at a time from the top
RECURSIVE BDivLimb(_, _, _, _, _)
RECURSIVE BDivDigit(_, _, _, _, _)
RECURSIVE BDivTake(_, _, _, _, _, _)
BDivLimb(a, b, i, q, r) ==
    IF i = 0 THEN <<BNorm(q), r>>
    ELSE BDivDigit(a, b, i, q, BNorm(<<a[i]>> \o r))
BDivDigit(a, b, i, q, r2) == BDivTake(a, b, i, q, r2, FindDigit(r2, b, 0, 14))
BDivTake(a, b, i, q, r2, d) ==
    BDivLimb(a, b, i - 1, <<d>> \o q,
             IF d = 0 THEN r2 ELSE BSub(r2, BMulDigit(b, d, 1, 0)))
BDivMod(a, b) == BDivLimb(a, b, Len(a), <<>>, <<>>)

FZero == <<<<>>, 0, 0>>

\* q * 2^e after rounding up may have reached 2^53
FCarry(q, e) == IF BBitLen(q) > Significand THEN <<BDivMod(q, <<2>>)[1], e + 1, 0>>
                                          ELSE <<q, e, 0>>

\* qr = <<m div 2^k, m mod 2^k>>: round to nearest, ties to even
FRoundDown(qr, k, e, sticky) ==
    LET c == BCmp(qr[2], BPow2(k - 1))
        up == c > 0 \/ (c = 0 /\ (sticky \/ qr[1][1] % 2 = 1))
    IN FCarry(IF up THEN BAdd(qr[1], <<1>>) ELSE qr[1], e + k)

\* the double nearest to m * 2^e (plus, when sticky, a non-zero part below
\* the last bit of m)
FRound(m, e, sticky) ==
    IF m = <<>> THEN FZero
    ELSE IF BBitLen(m) <= Significand
    THEN <<BMul(m, BPow2(Significand - BBitLen(m))), e - (Significand - BBitLen(m)), 0>>
    ELSE FRoundDown(BDivMod(m, BPow2(BBitLen(m) - Significand)),
                    BBitLen(m) - Significand, e, sticky)

\* float(n) for an integer n >= 0
F(n) == FRound(BFromInt(n), 0, FALSE)

Shifted(a, e) == BMul(a[1], BPow2(a[2] - e))
MinExp(a, b) == IF a[2] < b[2] THEN a[2] ELSE b[2]

FAdd(a, b) == IF a[1] = <<>> THEN b ELSE IF b[1] = <<>> THEN a
              ELSE FRound(BAdd(Shifted(a, MinExp(a, b)), Shifted(b, MinExp(a, b))),
                          MinExp(a, b), FALSE)
\* a - b for a >= b
FSub(a, b) == IF b[1] = <<>> THEN a
              ELSE FRound(BSub(Shifted(a, MinExp(a, b)), Shifted(b, MinExp(a, b))),
                          MinExp(a, b), FALSE)
FMul(a, b) == IF a[1] = <<>> \/ b[1] = <<>> THEN FZero
              ELSE FRound(BMul(a[1], b[1]), a[2] + b[2], FALSE)
FQuot(qr, e) == FRound(qr[1], e, qr[2] # <<>>)
FDiv(a, b) == IF a[1] = <<>> THEN FZero
              ELSE FQuot(BDivMod(BMul(a[1], BPow2(Significand + 3)), b[1]),
                         a[2] - b[2] - (Significand + 3))
FCmp(a, b) == IF a[1] = <<>> THEN (IF b[1] = <<>> THEN 0 ELSE -1)
              ELSE IF b[1] = <<>> THEN 1
              ELSE BCmp(Shifted(a, MinExp(a, b)), Shifted(b, MinExp(a, b)))

\* the literal n/d (a decimal literal is the double nearest to its value)
Lit(n, d) == FDiv(F(n), F(d))

\* a number is a double or, in the script's runs, an exact rational; the
\* operands of one operation are of the same kind
IsF(x) == Len(x) = 3
NumAdd(a, b) == IF IsF(a) THEN FAdd(a, b) ELSE RAdd(a, b)
NumSub(a, b) == IF IsF(a) THEN FSub(a, b) ELSE RSub(a, b)
NumMul(a, b) == IF IsF(a) THEN FMul(a, b) ELSE RMul(a, b)
NumDiv(a, b) == IF IsF(a) THEN FDiv(a, b) ELSE RDiv(a, b)
NumLe(a, b) == IF IsF(a) THEN FCmp(a, b) <= 0 ELSE RLe(a, b)

(***************************************************************************)
(* load_data                                                               *)
(*                                                                         *)
(* A file is [exists, columns, rows]; rows is the sequence of CSV rows in  *)
(* file order.  A numeric cell is [kind |-> "int", v |-> n] or a text      *)
(* cell [kind |-> "text", v |-> 0]; a categorical cell is a label or the   *)
(* missing value "NaN".  event_name is a number (names are only compared). *)
(***************************************************************************)
Path == "Cavs Tickets.csv"

\* pd.to_numeric(errors="coerce")
to_numeric(c) == IF c.kind = "int" THEN [nan |-> FALSE, v |-> c.v]
                                   ELSE [nan |-> TRUE, v |-> 0]

fillna(v, default) == IF v = "NaN" THEN default ELSE v

\* lines 86-96: coercion, synthesized event_name, categorical defaults
Prepared(file) ==
    [i \in DOMAIN file.rows |->
        LET r == file.rows[i] IN
        [event_name        |-> IF "event_name" \in file.columns
                               THEN r.event_name ELSE i - 1,
         days_since_onsale |-> to_numeric(r.days_since_onsale),
         daily_tickets     |-> to_numeric(r.daily_tickets),
         tier              |-> fillna(r.tier, "Unknown"),
         giveaway          |-> fillna(r.giveaway, "None"),
         day_of_sale       |-> fillna(r.day_of_sale, "Unknown")]]

NotNaRow(r) == ~r.days_since_onsale.nan /\ ~r.daily_tickets.nan
NonNegTickets(r) == r.daily_tickets >= 0
NonNegDays(r) == r.days_since_onsale >= 0

\* line 100 left out: negative ticket counts are kept
Cleaned_keeps_negative(rows) ==
    LET kept == SelectSeq(rows, NotNaRow)
        nums == [i \in DOMAIN kept |->
                    [kept[i] EXCEPT !.days_since_onsale = @.v, !.daily_tickets = @.v]]
    IN SelectSeq(nums, NonNegDays)

\* lines 99-101: dropna, then the two non-negativity filters
Cleaned(rows) ==
    LET kept == SelectSeq(rows, NotNaRow)
        nums == [i \in DOMAIN kept |->
                    [kept[i] EXCEPT !.days_since_onsale = @.v, !.daily_tickets = @.v]]
    IN SelectSeq(SelectSeq(nums, NonNegTickets), NonNegDays)

RowLe(a, b) ==
    \/ a.event_name < b.event_name
    \/ a.event_name = b.event_name /\ a.days_since_onsale <= b.days_since_onsale

\* the rows left in file order
sort_values_skipped(s) == s

\* line 106: df.sort_values(["event_name", "days_since_onsale"])
RECURSIVE sort_values(_)
sort_values(s) ==
    IF s = <<>> THEN <<>>
    ELSE LET i == CHOOSE k \in DOMAIN s : \A j \in DOMAIN s : RowLe(s[k], s[j])
         IN <<s[i]>> \o sort_values(SubSeq(s, 1, i - 1) \o SubSeq(s, i + 1, Len(s)))

\* groupby("event_name")["daily_tickets"].cumsum() at row i
cum_tickets(s, i) ==
    SumSeq([j \in 1..i |-> IF s[j].event_name = s[i].event_name
                           THEN s[j].daily_tickets ELSE 0])

\* groupby("event_name")["daily_tickets"].transform("sum") at row i
total_tickets(s, i) ==
    SumSeq([j \in DOMAIN s |-> IF s[j].event_name = s[i].event_name
                               THEN s[j].daily_tickets ELSE 0])

\* lines 113-118: np.where(total > 0, cum / total, 0) then .clip(0, 1)
cum_share(cum, total) ==
    clip(IF total > 0 THEN Rat(cum, total) ELSE R(0), R(0), R(1))

\* lines 121-123: per-event max of days_since_onsale
event_sales_window(s, i) ==
    MaxInt({s[j].days_since_onsale : j \in {k \in DOMAIN s : s[k].event_name = s[i].event_name}})

\* lines 126-133 (a window is never missing once the rows are cleaned)
bucket(win) ==
    IF win <= 30 THEN "Short (1-30)"
    ELSE IF win <= 90 THEN "Medium (31-90)"
    ELSE "Long (91-150+)"

\* lines 106-135 on the cleaned rows
Enriched(rows) ==
    LET s == sort_values(rows) IN
    [i \in DOMAIN s |->
        [event_name         |-> s[i].event_name,
         days_since_onsale  |-> s[i].days_since_onsale,
         daily_tickets      |-> s[i].daily_tickets,
         tier               |-> s[i].tier,
         giveaway           |-> s[i].giveaway,
         day_of_sale        |-> s[i].day_of_sale,
         cum_tickets        |-> cum_tickets(s, i),
         total_tickets      |-> total_tickets(s, i),
         cum_share          |-> cum_share(cum_tickets(s, i), total_tickets(s, i)),
         event_sales_window |-> event_sales_window(s, i),
         sales_window_group |-> bucket(event_sales_window(s, i))]]

RequiredCols == {"days_since_onsale", "daily_tickets"}
OptionalCategoricals == {"tier", "giveaway", "day_of_sale"}

\* load_data returns the pair (df, error)
load_data(file) ==
    IF ~file.exists
    THEN [df |-> None, error |-> Some("File not found")]
    ELSE IF ~(RequiredCols \subseteq file.columns)
    THEN [df |-> None, error |-> Some("Missing required columns")]
    \* lines 94-96: df.get(col, "Unknown") is a str when the column is absent;
    \* str has no fillna, and the exception is caught at line 139
    ELSE IF ~(OptionalCategoricals \subseteq file.columns)
    THEN [df |-> None, error |-> Some("Error loading data")]
    ELSE LET rows == Cleaned(Prepared(file)) IN
         IF rows = <<>>
         THEN [df |-> None, error |-> Some("No valid data rows after cleaning")]
         ELSE [df |-> Some(Enriched(rows)), error |-> None]

(***************************************************************************)
(* minmax_scale_dict and compute_weights                                   *)
(* A dict is a function from its keys; {} is the empty function <<>>.      *)
(***************************************************************************)
nan_to_num(v) == IF ~IsF(v) /\ v = NaN THEN R(1) ELSE v

RMinOf(S) == CHOOSE m \in S : \A x \in S : NumLe(m, x)
RMaxOf(S) == CHOOSE m \in S : \A x \in S : NumLe(x, m)

\* x < 1e-12.  A rational of the model has a denominator far below 10^12,
\* so such a difference is below 1e-12 exactly when it is not positive.
Eps == FDiv(F(1), FMul(F(1000000), F(1000000)))
BelowEps(x) == IF IsF(x) THEN FCmp(x, Eps) < 0 ELSE x[1] <= 0

minmax_scale_dict(values_dict, lo, hi) ==
    IF DOMAIN values_dict = {} THEN <<>>
    ELSE LET keys == DOMAIN values_dict
             vals == [k \in keys |-> nan_to_num(values_dict[k])]
             vmin == RMinOf({vals[k] : k \in keys})
             vmax == RMaxOf({vals[k] : k \in keys})
         IN IF BelowEps(NumSub(vmax, vmin))
            THEN [k \in keys |-> IF IsF(vmax) THEN F(1) ELSE R(1)]
            ELSE [k \in keys |->
                    NumAdd(lo, NumDiv(NumMul(NumSub(vals[k], vmin), NumSub(hi, lo)),
                                      NumSub(vmax, vmin)))]

WeightLo == Rat(75, 100)
WeightHi == Rat(125, 100)

default_tiers == {"A+", "A", "B", "C", "D", "Unknown"}
default_giveaways == {"None", "T-Shirt", "Bobblehead", "Poster", "Unknown"}
default_days == {"Sunday", "Monday", "Tuesday", "Wednesday", "Thursday", "Friday",
                 "Saturday", "Unknown"}

\* for k in defaults: d.setdefault(k, 1.0)
setdefaults(d, keys) ==
    [k \in DOMAIN d \cup keys |-> IF k \in DOMAIN d THEN d[k] ELSE R(1)]

\* df[col].mean() over the rows whose index is in I
MeanTickets(rows, I) ==
    Rat(SumSeq([j \in DOMAIN rows |-> IF j \in I THEN rows[j].daily_tickets ELSE 0]),
        Cardinality(I))

\* (df.groupby(col)["daily_tickets"].mean() / base).to_dict()
raw_weights(rows, col, base) ==
    [l \in {rows[i][col] : i \in DOMAIN rows} |->
        RDiv(MeanTickets(rows, {i \in DOMAIN rows : rows[i][col] = l}), base)]

compute_weights(rows) ==
    LET mean == MeanTickets(rows, DOMAIN rows)
        base == IF RLe(mean, R(0)) THEN R(1) ELSE mean
    IN [tier     |-> setdefaults(minmax_scale_dict(raw_weights(rows, "tier", base),
                                                   WeightLo, WeightHi), default_tiers),
        giveaway |-> setdefaults(minmax_scale_dict(raw_weights(rows, "giveaway", base),
                                                   WeightLo, WeightHi), default_giveaways),
        dow      |-> setdefaults(minmax_scale_dict(raw_weights(rows, "day_of_sale", base),
                                                   WeightLo, WeightHi), default_days)]

(***************************************************************************)
(* precompute_pacing                                                       *)
(* A curve is a sequence of rows [sales_window_group, days_since_onsale,   *)
(* p25, median, p75].                                                      *)
(***************************************************************************)
\* the quantile levels taken in the opposite order (0.75, 0.5, 0.25)
quantile_swapped(sorted, k) ==
    LET pos4 == (Len(sorted) - 1) * (4 - k)
        lo   == pos4 \div 4
        fr   == pos4 % 4
    IN IF fr = 0 THEN sorted[lo + 1]
       ELSE RAdd(sorted[lo + 1],
                 RMul(Rat(fr, 4), RSub(sorted[lo + 2], sorted[lo + 1])))

\* Series.quantile(k/4), linear interpolation, on ascending values
quantile(sorted, k) ==
    LET pos4 == (Len(sorted) - 1) * k
        lo   == pos4 \div 4
        fr   == pos4 % 4
    IN IF fr = 0 THEN sorted[lo + 1]
       ELSE RAdd(sorted[lo + 1],
                 RMul(Rat(fr, 4), RSub(sorted[lo + 2], sorted[lo + 1])))

SeqOfIdx(rows, I) ==
    LET RECURSIVE build(_)
        build(J) == IF J = {} THEN <<>>
                    ELSE LET j == CHOOSE x \in J : \A y \in J : x <= y
                         IN <<rows[j].cum_share>> \o build(J \ {j})
    IN build(I)

\* lines 191-197: quantiles of cum_share per (sales_window_group, day)
raw_pacing_row(rows, g, d) ==
    LET vals == RSort(SeqOfIdx(rows, {i \in DOMAIN rows :
                    rows[i].sales_window_group = g /\ rows[i].days_since_onsale = d}))
    IN [sales_window_group |-> g, days_since_onsale |-> d,
        p25 |-> quantile(vals, 1), median |-> quantile(vals, 2), p75 |-> quantile(vals, 3)]

\* Python's order of the cohort labels
GroupRank(g) == CASE g = "Long (91-150+)" -> 1
                  [] g = "Medium (31-90)" -> 2
                  [] g = "Short (1-30)"   -> 3
                  [] OTHER                -> 4

PacingLe(a, b) ==
    \/ GroupRank(a.sales_window_group) < GroupRank(b.sales_window_group)
    \/ /\ a.sales_window_group = b.sales_window_group
       /\ a.days_since_onsale <= b.days_since_onsale

\* lines 200-201: dropna(subset=["median"]) and sort_values
RECURSIVE sorted_pacing(_)
sorted_pacing(S) ==
    IF S = {} THEN <<>>
    ELSE LET r == CHOOSE x \in S : \A y \in S : PacingLe(x, y)
         IN <<r>> \o sorted_pacing(S \ {r})

\* the running maximum left out
cummax_skipped(p, i, col) == p[i][col]

\* lines 204-207: pacing.loc[mask, col] = pacing.loc[mask, col].cummax()
cummax(p, i, col) ==
    RMaxOf({p[j][col] : j \in {k \in 1..i : p[k].sales_window_group = p[i].sales_window_group}})

precompute_pacing(rows) ==
    LET keys == {<<rows[i].sales_window_group, rows[i].days_since_onsale>> : i \in DOMAIN rows}
        p == sorted_pacing({r \in {raw_pacing_row(rows, k[1], k[2]) : k \in keys} :
                                r.median # NaN})
    IN [i \in DOMAIN p |->
          [sales_window_group |-> p[i].sales_window_group,
           days_since_onsale  |-> p[i].days_since_onsale,
           p25    |-> cummax(p, i, "p25"),
           median |-> cummax(p, i, "median"),
           p75    |-> cummax(p, i, "p75")]]

(***************************************************************************)
(* Cohort selection, interpolation, forecast, momentum score, status       *)
(***************************************************************************)
IsGroup(r, g) == r.sales_window_group = g

\* lines 276-281: pacing_all.groupby("days_since_onsale")[cols].mean(), by day
all_games_pacing(pa) ==
    LET days == {pa[i].days_since_onsale : i \in DOMAIN pa}
        at(d) == {i \in DOMAIN pa : pa[i].days_since_onsale = d}
        mean(d, col) == RDiv(RSumSeq([i \in DOMAIN pa |->
                                IF i \in at(d) THEN pa[i][col] ELSE R(0)]),
                             R(Cardinality(at(d))))
        RECURSIVE build(_)
        build(D) == IF D = {} THEN <<>>
                    ELSE LET d == CHOOSE x \in D : \A y \in D : x <= y
                         IN <<[sales_window_group |-> "All Games",
                               days_since_onsale |-> d,
                               p25 |-> mean(d, "p25"), median |-> mean(d, "median"),
                               p75 |-> mean(d, "p75")]>> \o build(D \ {d})
    IN build(days)

\* line 283: pacing_all[pacing_all["sales_window_group"] == window_group]
cohort_pacing(pa, g) ==
    LET RECURSIVE pick(_)
        pick(s) == IF s = <<>> THEN <<>>
                   ELSE IF IsGroup(Head(s), g) THEN <<Head(s)>> \o pick(Tail(s))
                   ELSE pick(Tail(s))
    IN pick(pa)

\* lines 274-283
select_pacing(pa, g) ==
    IF g = "All Games" THEN all_games_pacing(pa) ELSE cohort_pacing(pa, g)

\* np.interp(x, xp, fp, left=fp[0], right=fp[-1]) on a non-empty curve whose
\* days ascend; x, xp are days and fp the values of column col
interp(x, p, col) ==
    LET n == Len(p) IN
    IF x < p[1].days_since_onsale THEN p[1][col]
    ELSE IF x > p[n].days_since_onsale THEN p[n][col]
    ELSE LET j == CHOOSE i \in 1..n :
                    /\ p[i].days_since_onsale <= x
                    /\ i < n => x < p[i + 1].days_since_onsale
         IN IF j = n THEN p[n][col]
            ELSE LET slope == RDiv(RSub(p[j + 1][col], p[j][col]),
                                   R(p[j + 1].days_since_onsale - p[j].days_since_onsale))
                 IN RAdd(RMul(slope, R(x - p[j].days_since_onsale)), p[j][col])

\* dict.get(key, 1.0)
get(d, k) == IF k \in DOMAIN d THEN d[k] ELSE R(1)

\* lines 48-63 of scenario_cum_share; all arguments are rationals
momentum(day, tx, avg_tix, tier_w, give_w, dow_w) ==
    LET norm_day  == clip(RDiv(day, R(240)), R(0), R(1))
        norm_txns == clip(RDiv(tx, R(1000)), R(0), R(1))
        norm_avg  == clip(RDiv(avg_tix, R(6)), R(0), R(1))
        norm_tier == clip(RDiv(RSub(tier_w, Rat(75, 100)), Rat(1, 2)), R(0), R(1))
        norm_give == clip(RDiv(RSub(give_w, Rat(75, 100)), Rat(1, 2)), R(0), R(1))
        norm_dow  == clip(RDiv(RSub(dow_w, Rat(75, 100)), Rat(1, 2)), R(0), R(1))
    IN RAdd(RAdd(RAdd(RAdd(RAdd(
            RMul(Rat(40, 100), norm_day),
            RMul(Rat(20, 100), norm_txns)),
            RMul(Rat(15, 100), norm_avg)),
            RMul(Rat(15, 100), norm_tier)),
            RMul(Rat(5, 100), norm_give)),
            RMul(Rat(5, 100), norm_dow))

\* the final clip left out
scenario_cum_share_unclipped(day, tx, avg_tix, tier_w, give_w, dow_w) ==
    momentum(day, tx, avg_tix, tier_w, give_w, dow_w)

\* scenario_cum_share: line 64 on the blend
scenario_cum_share(day, tx, avg_tix, tier_w, give_w, dow_w) ==
    clip(momentum(day, tx, avg_tix, tier_w, give_w, dow_w), Rat(2, 100), Rat(999, 1000))

GOAL_TICKETS == 2500

\* line 309
pace_adjustment_of(med) == RAdd(Rat(70, 100), RMul(Rat(60, 100), med))

\* lines 307-311
forecast_of(tx, avg_tix, tier_w, give_w, dow_w, med) ==
    RMul(RMul(RMul(tx, avg_tix), RMul(RMul(tier_w, give_w), dow_w)),
         pace_adjustment_of(med))

\* the first comparison written <= instead of <
status_of_inclusive(share, p25, p75) ==
    IF RLe(share, p25) THEN "Below P25 (Danger)"
    ELSE IF RLt(share, p75) THEN "Between P25-P75 (On Pace)"
    ELSE "Above P75 (Strong)"

\* lines 392-397
status_of(share, p25, p75) ==
    IF RLt(share, p25) THEN "Below P25 (Danger)"
    ELSE IF RLt(share, p75) THEN "Between P25-P75 (On Pace)"
    ELSE "Above P75 (Strong)"

(***************************************************************************)
(* One run of the script (lines 142-397).  Streamlit runs the whole script *)
(* at page load and again after every widget change; module-level names    *)
(* are rebound in every run, widget values persist in the session, and the *)
(* three @st.cache_data functions return the stored value on a cache hit.  *)
(***************************************************************************)
cache_get(store, key, computed) ==
    IF \E e \in store : e[1] = key
    THEN (CHOOSE e \in store : e[1] = key)[2]
    ELSE computed

cache_put(store, key, computed) ==
    IF \E e \in store : e[1] = key THEN store ELSE store \cup {<<key, computed>>}

\* Python's str order on the labels the widgets can list
LabelOrder == <<"A", "A+", "B", "Bobblehead", "C", "D", "Friday", "Monday", "None",
                "Poster", "Saturday", "Sunday", "T-Shirt", "Thursday", "Tuesday",
                "Unknown", "Wednesday">>
LabelRank(l) == CHOOSE i \in DOMAIN LabelOrder : LabelOrder[i] = l

\* index 0 of sorted(d.keys()): what a selectbox shows before any choice
first_option(d) ==
    CHOOSE l \in DOMAIN d : \A m \in DOMAIN d : LabelRank(l) <= LabelRank(m)

\* the selection bound to pacing_all itself
pacing_all_overwritten(pa, selected) == selected

\* line 211 binds pacing_all; lines 276-283 bind the selection to `pacing`
\* and leave pacing_all as it is
pacing_all_after(pa, selected) == pa

NoOutputs ==
    /\ pacing' = None /\ pace_med' = None /\ pace_adjustment' = None
    /\ forecast_tickets' = None /\ gap' = None /\ scenario_share' = None
    /\ p25_at_day' = None /\ p75_at_day' = None /\ status_label' = None

\* lines 293-397 on a non-empty selected curve
Render(sel, w, sw, tx, av, ti, gi, dw) ==
    LET tier_w == get(w.tier, ti)
        give_w == get(w.giveaway, gi)
        dow_w  == get(w.dow, dw)
        med    == interp(sw, sel, "median")
        fc     == forecast_of(R(tx), av, tier_w, give_w, dow_w, med)
        share  == scenario_cum_share(R(sw), R(tx), av, tier_w, give_w, dow_w)
        p25    == interp(sw, sel, "p25")
        p75    == interp(sw, sel, "p75")
    IN /\ pacing' = Some(sel)
       /\ pace_med' = Some(med)
       /\ pace_adjustment' = Some(pace_adjustment_of(med))
       /\ forecast_tickets' = Some(fc)
       /\ gap' = Some(RSub(R(GOAL_TICKETS), fc))
       /\ scenario_share' = Some(share)
       /\ p25_at_day' = Some(p25)
       /\ p75_at_day' = Some(p75)
       /\ status_label' = Some(status_of(share, p25, p75))

\* line 144: if error or df is None
load_failed(ld) == ld.error # None \/ ld.df = None

Script(wg, sw, tx, av, ti, gi, dw) ==
    \E ld \in {cache_get(cache.load, Path, load_data(raw))} :
    /\ df' = ld.df
    /\ error' = ld.error
    /\ IF load_failed(ld)
       THEN \* lines 144-147: st.error, st.stop
            /\ cache' = [cache EXCEPT !.load = cache_put(@, Path, ld)]
            /\ tier_weight' = None /\ giveaway_weight' = None /\ dow_weight' = None
            /\ pacing_all' = None
            /\ UNCHANGED widgets
            /\ NoOutputs
            /\ pc' = "stopped_load"
       ELSE \E w \in {cache_get(cache.weights, ld.df[1], compute_weights(ld.df[1]))} :
            \E pa \in {cache_get(cache.pacing, ld.df[1], precompute_pacing(ld.df[1]))} :
            \E sel \in {select_pacing(pa, wg)} :
            LET rows == ld.df[1]
                ti1  == IF ti = "" THEN first_option(w.tier) ELSE ti
                gi1  == IF gi = "" THEN first_option(w.giveaway) ELSE gi
            IN /\ cache' = [load    |-> cache_put(cache.load, Path, ld),
                            weights |-> cache_put(cache.weights, rows, w),
                            pacing  |-> cache_put(cache.pacing, rows, pa)]
               /\ tier_weight' = Some(w.tier)
               /\ giveaway_weight' = Some(w.giveaway)
               /\ dow_weight' = Some(w.dow)
               /\ pacing_all' = Some(pacing_all_after(pa, sel))
               /\ window_group' = wg /\ sales_window' = sw /\ txns' = tx
               /\ avg_tix_per_txn' = av /\ tier' = ti1 /\ giveaway' = gi1
               /\ day_of_week' = dw
               /\ IF sel = <<>>
                  THEN \* lines 285-288: st.error, st.stop
                       NoOutputs /\ pc' = "stopped_pacing"
                  ELSE Render(sel, w, sw, tx, av, ti1, gi1, dw) /\ pc' = "done"

(***************************************************************************)
(* The files the model starts from.  An event is a choice, for each of the *)
(* three days, of no row or a row with a ticket count; the categorical     *)
(* columns are fixed functions of the event and the day.  Rows stand in    *)
(* the file in descending order, so that line 106's sort has work to do.   *)
(***************************************************************************)
MaxTix == 1
MaxRuns == 3

DayOf == <<10, 70, 100>>
Absent == 0 - 1
Profiles == [DOMAIN DayOf -> {Absent} \cup (0..MaxTix)]
EventIds == {1, 2}
NoRows == [k \in DOMAIN DayOf |-> Absent]
Datasets == [EventIds -> Profiles]

tier_cell(k) == <<"A", "B", "NaN">>[k]
giveaway_cell(e) == <<"T-Shirt", "NaN", "Poster">>[e]
day_of_sale_cell(e, k) == IF (e + k) % 2 = 0 THEN "Saturday" ELSE "Monday"

IntCell(n) == [kind |-> "int", v |-> n]
TextCell == [kind |-> "text", v |-> 0]

FileRows(data) ==
    LET nd == Len(DayOf)
        ne == Cardinality(EventIds)
        RECURSIVE build(_)
        build(n) ==
            IF n > ne * nd THEN <<>>
            ELSE LET e == ne - ((n - 1) \div nd)
                     k == nd - ((n - 1) % nd)
                 IN (IF data[e][k] = Absent THEN <<>>
                     ELSE <<[event_name        |-> e,
                             days_since_onsale |-> IntCell(DayOf[k]),
                             daily_tickets     |-> IntCell(data[e][k]),
                             tier              |-> tier_cell(k),
                             giveaway          |-> giveaway_cell(e),
                             day_of_sale       |-> day_of_sale_cell(e, k)]>>)
                    \o build(n + 1)
    IN build(1)

Damages == {"text_tickets", "negative_tickets", "negative_days", "all_text"}

\* a file whose first row (or every row) has a cell that cleaning rejects
Damaged(rows, damage) ==
    [i \in DOMAIN rows |->
        IF damage = "all_text" THEN [rows[i] EXCEPT !.daily_tickets = TextCell]
        ELSE IF i # 1 THEN rows[i]
        ELSE IF damage = "text_tickets" THEN [rows[i] EXCEPT !.daily_tickets = TextCell]
        ELSE IF damage = "negative_tickets" THEN [rows[i] EXCEPT !.daily_tickets = IntCell(-1)]
        ELSE [rows[i] EXCEPT !.days_since_onsale = IntCell(-@.v)]]

AllColumns == {"event_name", "days_since_onsale", "daily_tickets", "tier", "giveaway",
               "day_of_sale"}
LackingColumns == {AllColumns \ {c} : c \in {"days_since_onsale", "daily_tickets", "tier"}}

File(cols, rows) == [exists |-> TRUE, columns |-> cols, rows |-> rows]

OneEvent == {d \in Datasets : d[2] = NoRows}
SecondEvents == {NoRows, <<1, 0, Absent>>, <<Absent, 1, Absent>>, <<Absent, 1, 1>>}

MissingFile == [exists |-> FALSE, columns |-> {}, rows |-> <<>>]

BrokenFiles ==
    {MissingFile}
    \cup {File(c, FileRows(d)) : c \in LackingColumns, d \in OneEvent}
    \cup {File(AllColumns, Damaged(FileRows(d), g)) : d \in OneEvent, g \in Damages}

\* files of the scenario specification
ScenarioFiles ==
    {File(AllColumns, FileRows(d)) : d \in {x \in Datasets : x[2] \in SecondEvents}}
    \cup BrokenFiles

\* files of the curve specification
CurveFiles ==
    {File(c, FileRows(d)) : c \in {AllColumns, AllColumns \ {"event_name"}}, d \in Datasets}
    \cup BrokenFiles

WindowGroups == {"All Games", "Short (1-30)", "Medium (31-90)", "Long (91-150+)"}
SalesWindowChoices == {0, 60, 210}
TxnsChoices == {250, 400, 1000}
AvgTixChoices == {R(3), R(5)}
TierChoices == {"A", "B"}
GiveawayChoices == {"Bobblehead", "T-Shirt"}
DayChoices == {"Friday", "Saturday"}

InitApp(files) ==
    /\ raw \in files
    /\ cache = [load |-> {}, weights |-> {}, pacing |-> {}]
    /\ df = None /\ error = None
    /\ tier_weight = None /\ giveaway_weight = None /\ dow_weight = None
    /\ pacing_all = None
    \* the widgets' declared defaults (lines 218-269); the two data-driven
    \* selectboxes have no value before the first run
    /\ window_group = "All Games" /\ sales_window = 60 /\ txns = 400
    /\ avg_tix_per_txn = R(3) /\ tier = "" /\ giveaway = "" /\ day_of_week = "Friday"
    /\ pacing = None /\ pace_med = None /\ pace_adjustment = None
    /\ forecast_tickets = None /\ gap = None /\ scenario_share = None
    /\ p25_at_day = None /\ p75_at_day = None /\ status_label = None
    /\ pc = "start"
    /\ runs = 0

NoProbe == probe_in = None /\ probe_out = None

Init == InitApp(ScenarioFiles) /\ NoProbe
InitCurves == InitApp(CurveFiles) /\ NoProbe

\* page load
FirstRun ==
    /\ pc = "start"
    /\ runs' = 1
    /\ UNCHANGED <<raw, probe_in, probe_out>>
    /\ Script(window_group, sales_window, txns, avg_tix_per_txn, tier, giveaway, day_of_week)

\* a widget change reruns the script; the sidebar exists only when the load
\* succeeded (it is rendered after line 147)
CanChange == pc \in {"done", "stopped_pacing"} /\ runs < MaxRuns
Rerun == runs' = runs + 1 /\ UNCHANGED <<raw, probe_in, probe_out>>

ChangeWindowGroup ==
    /\ CanChange /\ Rerun
    /\ \E v \in WindowGroups \ {window_group} :
          Script(v, sales_window, txns, avg_tix_per_txn, tier, giveaway, day_of_week)

ChangeSalesWindow ==
    /\ CanChange /\ Rerun
    /\ \E v \in SalesWindowChoices \ {sales_window} :
          Script(window_group, v, txns, avg_tix_per_txn, tier, giveaway, day_of_week)

ChangeTxns ==
    /\ CanChange /\ Rerun
    /\ \E v \in TxnsChoices \ {txns} :
          Script(window_group, sales_window, v, avg_tix_per_txn, tier, giveaway, day_of_week)

ChangeAvgTix ==
    /\ CanChange /\ Rerun
    /\ \E v \in AvgTixChoices \ {avg_tix_per_txn} :
          Script(window_group, sales_window, txns, v, tier, giveaway, day_of_week)

ChangeTier ==
    /\ CanChange /\ Rerun
    /\ \E v \in (TierChoices \cap DOMAIN tier_weight[1]) \ {tier} :
          Script(window_group, sales_window, txns, avg_tix_per_txn, v, giveaway, day_of_week)

ChangeGiveaway ==
    /\ CanChange /\ Rerun
    /\ \E v \in (GiveawayChoices \cap DOMAIN giveaway_weight[1]) \ {giveaway} :
          Script(window_group, sales_window, txns, avg_tix_per_txn, tier, v, day_of_week)

ChangeDayOfWeek ==
    /\ CanChange /\ Rerun
    /\ \E v \in DayChoices \ {day_of_week} :
          Script(window_group, sales_window, txns, avg_tix_per_txn, tier, giveaway, v)

Next ==
    \/ FirstRun
    \/ ChangeWindowGroup
    \/ ChangeSalesWindow
    \/ ChangeTxns
    \/ ChangeAvgTix
    \/ ChangeTier
    \/ ChangeGiveaway
    \/ ChangeDayOfWeek

Spec == Init /\ [][Next]_vars

NextCurves == FirstRun \/ ChangeWindowGroup

SpecCurves == InitCurves /\ [][NextCurves]_vars

(***************************************************************************)
(* The two helpers applied on their own, to arguments the script itself    *)
(* never passes (bounds other than 0.75/1.25, controls outside the slider  *)
(* ranges).                                                                *)
(***************************************************************************)
app == <<raw, cache, artefacts, widgets, outputs, pc, runs>>

ProbeKeys == {"a", "b", "c"}
ProbeRatios == {NaN, R(0), Rat(1, 2), R(1), R(2)}
ProbeDicts == UNION {[K -> ProbeRatios] : K \in SUBSET ProbeKeys}
ProbeBounds == {<<Rat(75, 100), Rat(125, 100)>>, <<R(0), R(1)>>, <<R(1), R(1)>>,
                <<R(-1), R(2)>>}

\* the same with float64 arguments
ProbeFloats == {F(0), F(1), F(3), Lit(1, 10)}
ProbeFloatDicts == UNION {[K -> ProbeFloats] : K \in SUBSET {"a", "b"}}
ProbeFloatBounds == {<<Lit(75, 100), Lit(125, 100)>>, <<F(0), Lit(1, 10)>>,
                     <<Lit(1, 10), Lit(7, 10)>>, <<Lit(1, 2), Lit(1, 2)>>}

MinMaxInputs ==
    {[d |-> d, lo |-> b[1], hi |-> b[2]] : d \in ProbeDicts, b \in ProbeBounds}
    \cup {[d |-> d, lo |-> b[1], hi |-> b[2]] : d \in ProbeFloatDicts, b \in ProbeFloatBounds}

\* minmax_scale_dict(values_dict, lo, hi), as at lines 165-167
ScaleDict ==
    /\ probe_in # None /\ probe_out = None
    /\ probe_out' = Some(minmax_scale_dict(probe_in[1].d, probe_in[1].lo, probe_in[1].hi))
    /\ UNCHANGED <<app, probe_in>>

InitWeights ==
    \/ InitApp(CurveFiles) /\ NoProbe
    \/ InitApp({MissingFile}) /\ probe_out = None /\ \E a \in MinMaxInputs : probe_in = Some(a)

NextWeights == FirstRun \/ ScaleDict

SpecWeights == InitWeights /\ [][NextWeights]_vars

ScoreFields == {"day", "txns", "avg_tix", "tier_w", "give_w", "dow_w"}
ProbeControls ==
    [day     |-> {R(-10), R(0), R(120), R(300)},
     txns    |-> {R(-50), R(0), R(500), R(2000)},
     avg_tix |-> {R(0), Rat(7, 2), R(8)},
     tier_w  |-> {Rat(1, 2), Rat(9, 10), Rat(3, 2)},
     give_w  |-> {Rat(1, 2), Rat(9, 10), Rat(3, 2)},
     dow_w   |-> {Rat(1, 2), Rat(9, 10), Rat(3, 2)}]
ScoreInputs == {a \in [ScoreFields -> UNION {ProbeControls[f] : f \in ScoreFields}] :
                    \A f \in ScoreFields : a[f] \in ProbeControls[f]}

score(a) == scenario_cum_share(a.day, a.txns, a.avg_tix, a.tier_w, a.give_w, a.dow_w)

\* scenario_cum_share(...), as at lines 365-372
Score ==
    /\ probe_out = None
    /\ probe_out' = Some(score(probe_in[1]))
    /\ UNCHANGED <<app, probe_in>>

\* the same call again with one argument raised, the other five as they were
ScoreRaised ==
    /\ probe_out # None
    /\ \E f \in ScoreFields : \E v \in ProbeControls[f] :
          /\ RLt(probe_in[1][f], v)
          /\ probe_in' = Some([probe_in[1] EXCEPT ![f] = v])
          /\ probe_out' = Some(score([probe_in[1] EXCEPT ![f] = v]))
    /\ UNCHANGED app

InitScore ==
    /\ InitApp({MissingFile})
    /\ probe_out = None
    /\ \E a \in ScoreInputs : probe_in = Some(a)

NextScore == Score \/ ScoreRaised

SpecScore == InitScore /\ [][NextScore]_vars

(***************************************************************************)
(* Properties                                                              *)
(***************************************************************************)
Danger == "Below P25 (Danger)"
OnPace == "Between P25-P75 (On Pace)"
Strong == "Above P75 (Strong)"

Cols == {"p25", "median", "p75"}

\* each of p25, median, p75 never falls as the day grows within a cohort
MonotoneCurve(p) ==
    \A i, j \in DOMAIN p :
        (/\ p[i].sales_window_group = p[j].sales_window_group
         /\ p[i].days_since_onsale < p[j].days_since_onsale)
        => \A c \in Cols : RLe(p[i][c], p[j][c])

Ordered(r) == RLe(r.p25, r.median) /\ RLe(r.median, r.p75)

\* C1 as stated: a score equal to P25 is "On Pace", a score equal to P75 is
\* "Strong", below P25 is "Danger", [P25, P75) is "On Pace", >= P75 is
\* "Strong", for every band including P25 = P75.
C1_AsStated ==
    pc = "done" =>
        LET s == scenario_share[1]
            lo == p25_at_day[1]
            hi == p75_at_day[1]
            st == status_label[1]
        IN /\ s = lo => st = OnPace
           /\ s = hi => st = Strong
           /\ RLt(s, lo) => st = Danger
           /\ (RLe(lo, s) /\ RLt(s, hi)) => st = OnPace
           /\ RLe(hi, s) => st = Strong

\* C1 amended: a score equal to P25 is never "Danger"; it is "On Pace" when
\* P25 < P75 and "Strong" when P25 = P75.  A score equal to P75 is "Strong";
\* below P25 is "Danger", [P25, P75) is "On Pace", >= P75 is "Strong".
C1_Boundaries ==
    pc = "done" =>
        LET s == scenario_share[1]
            lo == p25_at_day[1]
            hi == p75_at_day[1]
            st == status_label[1]
        IN /\ s = lo => st = (IF RLt(lo, hi) THEN OnPace ELSE Strong)
           /\ s = hi => st = Strong
           /\ RLt(s, lo) => st = Danger
           /\ (RLe(lo, s) /\ RLt(s, hi)) => st = OnPace
           /\ RLe(hi, s) => st = Strong

\* a run whose score sits on a band that has collapsed to one value
C1_Witness ==
    /\ pc = "done"
    /\ scenario_share = p25_at_day
    /\ p25_at_day = p75_at_day
    /\ status_label = Some(Strong)

\* C2: with the other controls as they were, a rerun with more transactions
\* never shows a lower forecast_tickets, and a rerun with a later target day
\* never shows a lower pace_adjustment.
C2_ForecastMonotone ==
    [][(/\ pc = "done" /\ pc' = "done"
        /\ window_group' = window_group /\ avg_tix_per_txn' = avg_tix_per_txn
        /\ tier' = tier /\ giveaway' = giveaway /\ day_of_week' = day_of_week)
       => /\ (sales_window' = sales_window /\ txns' > txns)
                => RLe(forecast_tickets[1], forecast_tickets'[1])
          /\ (txns' = txns /\ sales_window' > sales_window)
                => RLe(pace_adjustment[1], pace_adjustment'[1])]_vars

\* C3: the "All Games" curve has p25, median and p75 non-decreasing along
\* increasing days_since_onsale.
C3_AllGamesMonotone ==
    (pc = "done" /\ window_group = "All Games") => MonotoneCurve(pacing[1])

\* C4: in precompute_pacing's output every cohort's p25, median and p75 are
\* non-decreasing along increasing days_since_onsale.
C4_CohortCurvesMonotone ==
    pacing_all # None => MonotoneCurve(pacing_all[1])

\* a cohort whose raw median dips between two of its days
C4_Witness ==
    /\ pacing_all # None
    /\ \E i, j \in DOMAIN pacing_all[1] :
          LET a == pacing_all[1][i]
              b == pacing_all[1][j]
          IN /\ a.sales_window_group = b.sales_window_group
             /\ a.days_since_onsale < b.days_since_onsale
             /\ RLt(raw_pacing_row(df[1], b.sales_window_group, b.days_since_onsale).median,
                    raw_pacing_row(df[1], a.sales_window_group, a.days_since_onsale).median)

EventRows(rows, e) == {i \in DOMAIN rows : rows[i].event_name = e}
EventTotal(rows, e) ==
    SumSeq([j \in DOMAIN rows |-> IF rows[j].event_name = e THEN rows[j].daily_tickets ELSE 0])

\* C5: per event, cum_share lies in [0, 1], never falls as days_since_onsale
\* grows, is 1 on the last day when the event's total is positive, and is 0
\* on every row when the total is 0.
C5_CumShare ==
    df # None =>
        \A i \in DOMAIN df[1] :
            LET r == df[1][i]
                mine == EventRows(df[1], r.event_name)
                total == EventTotal(df[1], r.event_name)
            IN /\ RLe(R(0), r.cum_share) /\ RLe(r.cum_share, R(1))
               /\ \A j \in mine :
                     r.days_since_onsale < df[1][j].days_since_onsale
                        => RLe(r.cum_share, df[1][j].cum_share)
               /\ (total > 0 /\ \A j \in mine :
                        df[1][j].days_since_onsale <= r.days_since_onsale)
                     => r.cum_share = R(1)
               /\ total = 0 => r.cum_share = R(0)

\* an event sold over two days, with part of its total on the first
C5_Witness ==
    /\ df # None
    /\ \E i, j \in DOMAIN df[1] :
          /\ df[1][i].event_name = df[1][j].event_name
          /\ df[1][i].days_since_onsale < df[1][j].days_since_onsale
          /\ RLt(R(0), df[1][i].cum_share)
          /\ RLt(df[1][i].cum_share, df[1][j].cum_share)

NonDegenerate(d) ==
    /\ DOMAIN d # {}
    /\ \A k \in DOMAIN d : IsF(d[k]) \/ d[k] # NaN
    /\ ~BelowEps(NumSub(RMaxOf({d[k] : k \in DOMAIN d}), RMinOf({d[k] : k \in DOMAIN d})))

InBounds(d, lo, hi) == \A k \in DOMAIN d : NumLe(lo, d[k]) /\ NumLe(d[k], hi)

\* C6: on a mapping whose ratios are not all equal and lo <= hi,
\* minmax_scale_dict keeps the keys, puts every value in [lo, hi], the minimum
\* ratio at lo and the maximum at hi; the three mappings compute_weights
\* returns lie in [0.75, 1.25].
C6_WeightBounding ==
    /\ (probe_in # None /\ probe_out # None) =>
          LET a == probe_in[1]
              out == probe_out[1]
          IN (NonDegenerate(a.d) /\ NumLe(a.lo, a.hi)) =>
                /\ DOMAIN out = DOMAIN a.d
                /\ InBounds(out, a.lo, a.hi)
                /\ \A k \in DOMAIN a.d :
                      /\ a.d[k] = RMinOf({a.d[x] : x \in DOMAIN a.d}) => out[k] = a.lo
                      /\ a.d[k] = RMaxOf({a.d[x] : x \in DOMAIN a.d}) => out[k] = a.hi
    /\ tier_weight # None =>
          /\ InBounds(tier_weight[1], WeightLo, WeightHi)
          /\ InBounds(giveaway_weight[1], WeightLo, WeightHi)
          /\ InBounds(dow_weight[1], WeightLo, WeightHi)

\* C7: scenario_cum_share returns a value in [0.02, 0.999], and raising any
\* of its arguments (none lowered) never lowers the result.
C7_Momentum ==
    /\ [](probe_out # None =>
            RLe(Rat(2, 100), probe_out[1]) /\ RLe(probe_out[1], Rat(999, 1000)))
    /\ [][(/\ probe_out # None /\ probe_out' # None
           /\ \A f \in ScoreFields : RLe(probe_in[1][f], probe_in'[1][f]))
          => RLe(probe_out[1], probe_out'[1])]_vars

\* a score strictly inside the range, for a day beyond the slider's 240
C7_Witness ==
    /\ probe_out # None
    /\ probe_in[1].day = R(300)
    /\ RLt(Rat(2, 100), probe_out[1]) /\ RLt(probe_out[1], Rat(999, 1000))

Rejected(c) == c.kind = "text" \/ c.v < 0
NoValidRow(file) ==
    \A i \in DOMAIN file.rows :
        Rejected(file.rows[i].days_since_onsale) \/ Rejected(file.rows[i].daily_tickets)
Unloadable(file) ==
    file.exists /\ (~(RequiredCols \subseteq file.columns) \/ NoValidRow(file))

\* C8: load_data returns exactly one of a dataframe and an error; a file that
\* lacks a required column or has no row that survives cleaning gives the
\* error; and after an error the run has stopped with no weights, curves,
\* forecast or status computed.
C8_LoadFailure ==
    pc # "start" =>
        /\ (df = None) # (error = None)
        /\ Unloadable(raw) => (df = None /\ error # None)
        /\ df = None =>
              /\ pc = "stopped_load"
              /\ tier_weight = None /\ giveaway_weight = None /\ dow_weight = None
              /\ pacing_all = None
              /\ cache.weights = {} /\ cache.pacing = {}
              /\ \A i \in DOMAIN outputs : outputs[i] = None

\* a file with all its columns whose rows are all rejected by cleaning
C8_Witness ==
    /\ pc = "stopped_load"
    /\ raw.exists /\ raw.columns = AllColumns /\ raw.rows # <<>>
    /\ error = Some("No valid data rows after cleaning")

TargetDays == {0, 40, 60, 90, 240}

\* C9: every row of the per-cohort curves and of the selected curve has
\* p25 <= median <= p75, and the band interpolated at a target day has
\* P25 <= P75.
C9_PercentileOrder ==
    /\ pacing_all # None => \A i \in DOMAIN pacing_all[1] : Ordered(pacing_all[1][i])
    /\ pacing # None =>
          /\ \A i \in DOMAIN pacing[1] : Ordered(pacing[1][i])
          /\ RLe(p25_at_day[1], p75_at_day[1])
          /\ \A d \in TargetDays :
                RLe(interp(d, pacing[1], "p25"), interp(d, pacing[1], "p75"))

\* the averaged curve with a row whose three percentiles differ
C9_Witness ==
    /\ pacing # None /\ window_group = "All Games"
    /\ \E i \in DOMAIN pacing[1] :
          RLt(pacing[1][i].p25, pacing[1][i].median)
          /\ RLt(pacing[1][i].median, pacing[1][i].p75)

\* shown is what a first run on this file with these controls computes
ShowsFresh(shown, file, wg, sw, tx, av, ti, gi, dw) ==
    \E rows \in {load_data(file).df[1]} :
    \E w \in {compute_weights(rows)} :
    \E sel \in {select_pacing(precompute_pacing(rows), wg)} :
    \E fc \in {forecast_of(R(tx), av, get(w.tier, ti), get(w.giveaway, gi),
                           get(w.dow, dw), interp(sw, sel, "median"))} :
        shown = <<fc, RSub(R(GOAL_TICKETS), fc),
                  status_of(scenario_cum_share(R(sw), R(tx), av, get(w.tier, ti),
                                               get(w.giveaway, gi), get(w.dow, dw)),
                            interp(sw, sel, "p25"), interp(sw, sel, "p75"))>>

\* C10: a rerun after a widget change leaves the cleaned data, the cohort
\* curves and the three weight mappings as they were, and what a run shows
\* is what a first run with the same file and controls would show.
C10_ScenarioFrame ==
    /\ [][(pc \in {"done", "stopped_pacing"}) =>
            (/\ df' = df /\ pacing_all' = pacing_all
             /\ tier_weight' = tier_weight /\ giveaway_weight' = giveaway_weight
             /\ dow_weight' = dow_weight)]_vars
    /\ [](pc = "done" =>
            ShowsFresh(<<forecast_tickets[1], gap[1], status_label[1]>>,
                       raw, window_group, sales_window, txns, avg_tix_per_txn,
                       tier, giveaway, day_of_week))

\* a third run, on a single cohort, after the cohort and the day were changed
C10_Witness ==
    /\ pc = "done" /\ runs = 3
    /\ window_group # "All Games" /\ sales_window # 60

====
